---- MODULE Spec2Model ----
(***************************************************************************)
(* Model of the cooperative executor of src/main.rs: the Task slot with    *)
(* its type-erased storage and poll/drop bindings, the Executor with its   *)
(* round-robin cursor, and the Yield and Delay futures.                    *)
(*                                                                         *)
(* A future is a record [type, size, bytes]: `type' names the poll code of  *)
(* the concrete F the generic code is monomorphised over, `size' is        *)
(* size_of::<F>() and `bytes' is the value of the bytes that make up its   *)
(* state (the bool of Yield, the u32 of Delay).  A Task stores only the    *)
(* bytes; the type lives on in the poll_fn/drop_fn closures bound to F.    *)
(***************************************************************************)
EXTENDS Integers, Sequences, FiniteSets, TLC

\* ---- program constants -------------------------------------------------
NumTasks == 8
StorageLen == 512
Chunk == 1000
KEY_ESC == 1
KEY_1 == 2
KEY_2 == 3
KEY_3 == 4
KEY_4 == 5
BackgroundDelay == 2000000
GeneratorWrapDelay == 5000000
GeneratorDelay == 500000
MatrixDelay == 50000
HypnotizerDelay == 30000
ScreenRows == 25

\* ---- bounds of the model -----------------------------------------------
MaxSpawns == 9
MaxTurnSpawns == 5
MaxCycles == 3500
MaxPolls == 6
MaxDeacts == 3
MaxTaskDelays == 40
DelayScale == 1000

VARIABLES
    tasks,          \* Executor.tasks: slot index -> Task
    current_task,   \* Executor.current_task
    op,             \* the last Executor call, its argument and its outcome:
                    \*   name, the value spawn returned (ret), the slots
                    \*   the call worked on, the poll result run_step saw
                    \*   (res), size_of the spawned future, whether it was
                    \*   moved into a slot (forgot) and whether that slot
                    \*   had been released by a finished future (reuse)
    next_id,        \* history: number of spawn calls so far
    life,           \* history: slot -> what happened to the future whose
                    \*          bytes were last moved into the slot
    waited,         \* history: slot -> number of run_step calls in a row
                    \*          that left the future in the slot unpolled
    late_poll,      \* history: a future was polled after it returned Ready
    trail,          \* history: the cursor at the last NumTasks run_step calls
    fut,            \* a free-standing future polled directly
    total,          \* the cycles the free-standing Delay was created with
    results,        \* the poll results of the free-standing future, in order
    slot,           \* a free-standing Task
    slot_log,       \* history of the free-standing Task since the last
                    \* init_with on it: whether that call stored its future,
                    \* the number of drop_fn calls and of deactivate calls
    pc,             \* where _start is: "start", "menu", "fg", "after",
                    \* "panic" ("off" when _start is not running)
    kbd             \* what the next read_keyboard() returns

vars == <<tasks, current_task, op, next_id, life, waited, late_poll, trail,
          fut, total, results, slot, slot_log, pc, kbd>>

exec_vars == <<tasks, current_task, op, next_id, life, waited, late_poll,
               trail>>

prim_vars == <<fut, total, results>>

task_vars == <<slot, slot_log>>

driver_vars == <<pc, kbd>>

Slots == 0 .. (NumTasks - 1)

\* ---- futures -----------------------------------------------------------

Yield_new == [type |-> "Yield", size |-> 1, bytes |-> 0]

Delay_new(cycles) == [type |-> "Delay", size |-> 4, bytes |-> cycles]

\* A future of sz bytes with the poll code of Yield: a Yield followed by
\* sz - 1 bytes of other state that its poll never reads.
Padded_new(sz) == [type |-> "Yield", size |-> sz, bytes |-> 0]

size_of(future) == future.size

Min(a, b) == IF a < b THEN a ELSE b

\* Yield::poll that does not record that it has yielded
Yield_poll_forgets(b) ==
    IF b # 0
    THEN [res |-> "Ready", bytes |-> b]
    ELSE [res |-> "Pending", bytes |-> b]

\* <Yield as Future>::poll on the state bytes b (yielded: bool)
Yield_poll(b) ==
    IF b # 0
    THEN [res |-> "Ready", bytes |-> b]
    ELSE [res |-> "Pending", bytes |-> 1]

\* Delay::poll that reports Ready in the call that consumes the last chunk
Delay_poll_eager(b) ==
    IF b = 0
    THEN [res |-> "Ready", bytes |-> b]
    ELSE LET chunk == Min(b, Chunk)
         IN  [res   |-> IF b - chunk = 0 THEN "Ready" ELSE "Pending",
              bytes |-> b - chunk]

\* Delay::poll that always takes a whole chunk off remaining
Delay_poll_whole_chunk(b) ==
    IF b = 0
    THEN [res |-> "Ready", bytes |-> b]
    ELSE [res |-> "Pending", bytes |-> b - Chunk]

\* <Delay as Future>::poll on the state bytes b (remaining: u32)
Delay_poll(b) ==
    IF b = 0
    THEN [res |-> "Ready", bytes |-> b]
    ELSE LET chunk == Min(b, Chunk)
         IN  [res |-> "Pending", bytes |-> b - chunk]

\* ---- the keyboard ------------------------------------------------------

\* read_keyboard() returning None
NoKey == -1

\* a scan code that no match arm names
OtherKeys == {30}

Keys == {NoKey, KEY_ESC, KEY_1, KEY_2, KEY_3, KEY_4} \cup OtherKeys

\* ---- the async fns of the program --------------------------------------
\* The state of an async fn is the suspension point it is at (at), the
\* current_line it keeps across the await (line, 0 where there is none) and
\* the remaining cycles of the Delay it awaits (rem); bytes is the three
\* packed into one number.  Counters that only choose colours are left out.

Unresumed == 0
AtYield == 1
AtDelay == 2
AtWrapDelay == 3
Returned == 4

AsyncState(at, line, rem) == at + 5 * (line + ScreenRows * rem)

AsyncAt(b) == b % 5

AsyncLine(b) == (b \div 5) % ScreenRows

AsyncRem(b) == b \div (5 * ScreenRows)

\* The cycles of a delay() call of the program, in units of DelayScale.
Scaled(cycles) == cycles \div DelayScale

\* The sizes stand for size_of of the compiler's state machines: a few
\* words (two 80-byte arrays more in swag_matrix), all below StorageLen.
Background_new == [type |-> "Background", size |-> 16, bytes |-> Unresumed]

Generator_new == [type |-> "Generator", size |-> 48, bytes |-> Unresumed]

Matrix_new == [type |-> "Matrix", size |-> 176, bytes |-> Unresumed]

Hypnotizer_new == [type |-> "Hypnotizer", size |-> 96, bytes |-> Unresumed]

\* delay(cycles).await; yield_now().await, entered with a new Delay or
\* resumed at the Delay with rem cycles left: the poll ends Pending at the
\* Delay, or at the new Yield once the Delay is Ready.
AwaitDelayThenYield(line, rem) ==
    LET d == Delay_poll(rem)
    IN  IF d.res = "Pending"
        THEN [res |-> "Pending", bytes |-> AsyncState(AtDelay, line, d.bytes)]
        ELSE [res   |-> Yield_poll(Yield_new.bytes).res,
              bytes |-> AsyncState(AtYield, line, 0)]

\* The body of a loop { if ESC break; ...; delay(cycles); yield_now() }
\* from its top, with the scan code read_keyboard() returns.
LoopBody(key, cycles) ==
    IF key = KEY_ESC
    THEN [res |-> "Ready", bytes |-> AsyncState(Returned, 0, 0)]
    ELSE AwaitDelayThenYield(0, Scaled(cycles))

\* poll of swag_matrix() and swag_hypnotizer(), which differ in cycles
Loop_poll(b, key, cycles) ==
    CASE AsyncAt(b) = Unresumed -> LoopBody(key, cycles)
      [] AsyncAt(b) = AtYield   -> LoopBody(key, cycles)
      [] AsyncAt(b) = AtDelay   -> AwaitDelayThenYield(0, AsyncRem(b))

\* background_swag_enhancer() that returns after its first yield_now()
Background_poll_returns(b) ==
    CASE AsyncAt(b) = Unresumed ->
            AwaitDelayThenYield(0, Scaled(BackgroundDelay))
      [] AsyncAt(b) = AtYield ->
            [res |-> "Ready", bytes |-> AsyncState(Returned, 0, 0)]
      [] AsyncAt(b) = AtDelay ->
            AwaitDelayThenYield(0, AsyncRem(b))

\* poll of background_swag_enhancer(): loop { delay; ...; yield_now }
Background_poll(b) ==
    CASE AsyncAt(b) = Unresumed ->
            AwaitDelayThenYield(0, Scaled(BackgroundDelay))
      [] AsyncAt(b) = AtYield ->
            AwaitDelayThenYield(0, Scaled(BackgroundDelay))
      [] AsyncAt(b) = AtDelay ->
            AwaitDelayThenYield(0, AsyncRem(b))

\* delay(5_000_000).await of swag_generator, then its delay and yield_now
AwaitWrapDelay(line, rem) ==
    LET d == Delay_poll(rem)
    IN  IF d.res = "Pending"
        THEN [res   |-> "Pending",
              bytes |-> AsyncState(AtWrapDelay, line, d.bytes)]
        ELSE AwaitDelayThenYield(line, Scaled(GeneratorDelay))

\* The loop body of swag_generator from its top, current_line being line.
GeneratorBody(key, line) ==
    LET next == (line + 1) % ScreenRows
    IN  IF key = KEY_ESC
        THEN [res |-> "Ready", bytes |-> AsyncState(Returned, line, 0)]
        ELSE IF next = 0
        THEN AwaitWrapDelay(next, Scaled(GeneratorWrapDelay))
        ELSE AwaitDelayThenYield(next, Scaled(GeneratorDelay))

\* poll of swag_generator()
Generator_poll(b, key) ==
    CASE AsyncAt(b) = Unresumed   -> GeneratorBody(key, 0)
      [] AsyncAt(b) = AtYield     -> GeneratorBody(key, AsyncLine(b))
      [] AsyncAt(b) = AtDelay     ->
            AwaitDelayThenYield(AsyncLine(b), AsyncRem(b))
      [] AsyncAt(b) = AtWrapDelay -> AwaitWrapDelay(AsyncLine(b), AsyncRem(b))

\* F::poll for the type F a closure was bound to
Future_poll(type, b) ==
    CASE type = "Yield"      -> Yield_poll(b)
      [] type = "Delay"      -> Delay_poll(b)
      [] type = "Background" -> Background_poll(b)
      [] type = "Generator"  -> Generator_poll(b, kbd)
      [] type = "Matrix"     -> Loop_poll(b, kbd, MatrixDelay)
      [] type = "Hypnotizer" -> Loop_poll(b, kbd, HypnotizerDelay)

\* ---- Task --------------------------------------------------------------

Task_new == [poll_fn |-> "None", drop_fn |-> "None", storage |-> 0]

\* init_with that binds poll_fn and leaves drop_fn as it was
Task_init_with_no_drop(task, future) ==
    IF size_of(future) <= StorageLen
    THEN [task   |-> [poll_fn |-> future.type,
                      drop_fn |-> task.drop_fn,
                      storage |-> future.bytes],
          forgot |-> TRUE]
    ELSE [task |-> task, forgot |-> FALSE]

\* init_with without the size check
Task_init_with_unchecked(task, future) ==
    [task   |-> [poll_fn |-> future.type,
                 drop_fn |-> future.type,
                 storage |-> future.bytes],
     forgot |-> TRUE]

\* Returns the task after the call and whether the future was forgotten
\* (moved into the storage); a future that is not forgotten is dropped
\* when init_with returns.
Task_init_with(task, future) ==
    IF size_of(future) <= StorageLen
    THEN [task   |-> [poll_fn |-> future.type,
                      drop_fn |-> future.type,
                      storage |-> future.bytes],
          forgot |-> TRUE]
    ELSE [task |-> task, forgot |-> FALSE]

\* Returns the result, the task after the call and whether the stored
\* future was really polled.
Task_poll(task) ==
    IF task.poll_fn # "None"
    THEN LET r == Future_poll(task.poll_fn, task.storage)
         IN  [res    |-> r.res,
              task   |-> [task EXCEPT !.storage = r.bytes],
              polled |-> TRUE]
    ELSE [res |-> "Ready", task |-> task, polled |-> FALSE]

Task_is_active(task) == task.poll_fn # "None"

\* deactivate that calls drop_fn without taking it out of the task
Task_deactivate_no_take(task) ==
    [task    |-> [task EXCEPT !.poll_fn = "None"],
     dropped |-> task.drop_fn # "None"]

\* deactivate that clears the bindings without invoking drop_fn
Task_deactivate_leak(task) ==
    [task    |-> [task EXCEPT !.drop_fn = "None", !.poll_fn = "None"],
     dropped |-> FALSE]

\* deactivate that takes drop_fn but leaves poll_fn bound
Task_deactivate_keeps_poll(task) ==
    [task    |-> [task EXCEPT !.drop_fn = "None"],
     dropped |-> task.drop_fn # "None"]

\* Returns the task after the call and whether drop_fn was invoked.
Task_deactivate(task) ==
    [task    |-> [task EXCEPT !.drop_fn = "None", !.poll_fn = "None"],
     dropped |-> task.drop_fn # "None"]

\* ---- Executor ----------------------------------------------------------

Executor_new_tasks == [i \in Slots |-> Task_new]

FreeSlots(ts) == {i \in Slots : ~Task_is_active(ts[i])}

FirstFree(ts) == CHOOSE i \in FreeSlots(ts) : \A j \in FreeSlots(ts) : i <= j

\* spawn that installs into the last free slot instead of the first
Executor_spawn_last(ts, future) ==
    IF FreeSlots(ts) # {}
    THEN LET i == CHOOSE k \in FreeSlots(ts) : \A j \in FreeSlots(ts) : j <= k
             r == Task_init_with(ts[i], future)
         IN  [tasks  |-> [ts EXCEPT ![i] = r.task],
              ret    |-> TRUE,
              slots  |-> {i},
              forgot |-> r.forgot]
    ELSE [tasks |-> ts, ret |-> FALSE, slots |-> {}, forgot |-> FALSE]

\* spawn that installs over slot 0 when no slot is free
Executor_spawn_evicts(ts, future) ==
    LET i == IF FreeSlots(ts) # {} THEN FirstFree(ts) ELSE 0
        r == Task_init_with(ts[i], future)
    IN  [tasks  |-> [ts EXCEPT ![i] = r.task],
         ret    |-> TRUE,
         slots  |-> {i},
         forgot |-> r.forgot]

\* spawn that polls the future once after it has installed it
Executor_spawn_resumes(ts, future) ==
    IF FreeSlots(ts) # {}
    THEN LET i == FirstFree(ts)
             r == Task_init_with(ts[i], future)
         IN  [tasks  |-> [ts EXCEPT ![i] = Task_poll(r.task).task],
              ret    |-> TRUE,
              slots  |-> {i},
              forgot |-> r.forgot]
    ELSE [tasks |-> ts, ret |-> FALSE, slots |-> {}, forgot |-> FALSE]

\* The outcome of Executor::spawn(future) on the table ts: the table after
\* the call, the value returned, the slots init_with was called on and
\* whether the future was moved into them.
Executor_spawn(ts, future) ==
    IF FreeSlots(ts) # {}
    THEN LET i == FirstFree(ts)
             r == Task_init_with(ts[i], future)
         IN  [tasks  |-> [ts EXCEPT ![i] = r.task],
              ret    |-> TRUE,
              slots  |-> {i},
              forgot |-> r.forgot]
    ELSE [tasks |-> ts, ret |-> FALSE, slots |-> {}, forgot |-> FALSE]

\* run_step that advances the cursor only past an active slot
Executor_run_step_sticky(ts, cur) ==
    LET task   == ts[cur]
        active == Task_is_active(task)
        p      == Task_poll(task)
        d      == Task_deactivate(p.task)
        fin    == IF ~active THEN task
                  ELSE IF p.res = "Ready" THEN d.task
                  ELSE p.task
    IN  [tasks   |-> [ts EXCEPT ![cur] = fin],
         cur     |-> IF active THEN (cur + 1) % NumTasks ELSE cur,
         polled  |-> IF active /\ p.polled THEN {cur} ELSE {},
         res     |-> IF active THEN p.res ELSE "None",
         dropped |-> IF active /\ p.res = "Ready" /\ d.dropped
                     THEN {cur} ELSE {}]

\* run_step that deactivates every slot once the polled one is Ready
Executor_run_step_sweeps(ts, cur) ==
    LET task   == ts[cur]
        active == Task_is_active(task)
        p      == Task_poll(task)
        ready  == active /\ p.res = "Ready"
        polled == [ts EXCEPT ![cur] = IF active THEN p.task ELSE task]
    IN  [tasks   |-> IF ready
                     THEN [i \in Slots |-> Task_deactivate(polled[i]).task]
                     ELSE polled,
         cur     |-> (cur + 1) % NumTasks,
         polled  |-> IF active /\ p.polled THEN {cur} ELSE {},
         res     |-> IF active THEN p.res ELSE "None",
         dropped |-> IF ready
                     THEN {i \in Slots : Task_deactivate(polled[i]).dropped}
                     ELSE {}]

\* run_step that leaves a slot bound after its future returned Ready
Executor_run_step_no_release(ts, cur) ==
    LET task   == ts[cur]
        active == Task_is_active(task)
        p      == Task_poll(task)
    IN  [tasks   |-> [ts EXCEPT ![cur] = IF active THEN p.task ELSE task],
         cur     |-> (cur + 1) % NumTasks,
         polled  |-> IF active /\ p.polled THEN {cur} ELSE {},
         res     |-> IF active THEN p.res ELSE "None",
         dropped |-> {}]

\* run_step that deactivates the slot whatever its poll returned
Executor_run_step_preempts(ts, cur) ==
    LET task   == ts[cur]
        active == Task_is_active(task)
        p      == Task_poll(task)
        d      == Task_deactivate(p.task)
    IN  [tasks   |-> [ts EXCEPT ![cur] = IF active THEN d.task ELSE task],
         cur     |-> (cur + 1) % NumTasks,
         polled  |-> IF active /\ p.polled THEN {cur} ELSE {},
         res     |-> IF active THEN p.res ELSE "None",
         dropped |-> IF active /\ d.dropped THEN {cur} ELSE {}]

\* run_step that polls the slot at the cursor without asking is_active
Executor_run_step_unguarded(ts, cur) ==
    LET task == ts[cur]
        p    == Task_poll(task)
        d    == Task_deactivate(p.task)
    IN  [tasks   |-> [ts EXCEPT ![cur] = IF p.res = "Ready" THEN d.task
                                         ELSE p.task],
         cur     |-> (cur + 1) % NumTasks,
         polled  |-> IF p.polled THEN {cur} ELSE {},
         res     |-> p.res,
         dropped |-> IF p.res = "Ready" /\ d.dropped THEN {cur} ELSE {}]

\* run_step that moves the cursor two slots on after a Ready
Executor_run_step_skips(ts, cur) ==
    LET task   == ts[cur]
        active == Task_is_active(task)
        p      == Task_poll(task)
        d      == Task_deactivate(p.task)
        ready  == active /\ p.res = "Ready"
        fin    == IF ~active THEN task
                  ELSE IF p.res = "Ready" THEN d.task
                  ELSE p.task
    IN  [tasks   |-> [ts EXCEPT ![cur] = fin],
         cur     |-> (cur + (IF ready THEN 2 ELSE 1)) % NumTasks,
         polled  |-> IF active /\ p.polled THEN {cur} ELSE {},
         res     |-> IF active THEN p.res ELSE "None",
         dropped |-> IF ready /\ d.dropped THEN {cur} ELSE {}]

\* run_step that moves the cursor one slot back instead of forward
Executor_run_step_backwards(ts, cur) ==
    LET task   == ts[cur]
        active == Task_is_active(task)
        p      == Task_poll(task)
        d      == Task_deactivate(p.task)
        fin    == IF ~active THEN task
                  ELSE IF p.res = "Ready" THEN d.task
                  ELSE p.task
    IN  [tasks   |-> [ts EXCEPT ![cur] = fin],
         cur     |-> (cur + NumTasks - 1) % NumTasks,
         polled  |-> IF active /\ p.polled THEN {cur} ELSE {},
         res     |-> IF active THEN p.res ELSE "None",
         dropped |-> IF active /\ p.res = "Ready" /\ d.dropped
                     THEN {cur} ELSE {}]

\* The outcome of Executor::run_step() on the table ts with cursor cur:
\* the table and the cursor after the call, whether the stored future was
\* polled, what the poll returned and whether drop_fn was invoked.
Executor_run_step(ts, cur) ==
    LET task   == ts[cur]
        active == Task_is_active(task)
        p      == Task_poll(task)
        d      == Task_deactivate(p.task)
        fin    == IF ~active THEN task
                  ELSE IF p.res = "Ready" THEN d.task
                  ELSE p.task
    IN  [tasks   |-> [ts EXCEPT ![cur] = fin],
         cur     |-> (cur + 1) % NumTasks,
         polled  |-> IF active /\ p.polled THEN {cur} ELSE {},
         res     |-> IF active THEN p.res ELSE "None",
         dropped |-> IF active /\ p.res = "Ready" /\ d.dropped
                     THEN {cur} ELSE {}]

\* ---- the futures handed to spawn ---------------------------------------

SpawnFutures ==
    {Yield_new, Padded_new(StorageLen), Padded_new(StorageLen + 1)}

\* ---- initial state -----------------------------------------------------

NoLife == [ready |-> FALSE, drops |-> 0]

InitExec ==
    /\ tasks = Executor_new_tasks
    /\ current_task = 0
    /\ op = [name |-> "new", ret |-> FALSE, slots |-> {}, res |-> "None",
             size |-> 0, forgot |-> FALSE, reuse |-> FALSE]
    /\ next_id = 0
    /\ life = [i \in Slots |-> NoLife]
    /\ waited = [i \in Slots |-> 0]
    /\ late_poll = FALSE
    /\ trail = <<>>

InitPrimIdle ==
    /\ fut = Yield_new
    /\ total = 0
    /\ results = <<>>

NoLog == [installed |-> FALSE, drops |-> 0, deacts |-> 0]

InitTaskIdle ==
    /\ slot = Task_new
    /\ slot_log = NoLog

InitDriverIdle ==
    /\ pc = "off"
    /\ kbd = NoKey

Init == InitExec /\ InitPrimIdle /\ InitTaskIdle /\ InitDriverIdle

\* ---- actions -----------------------------------------------------------

\* what executor.spawn(future) does to the table and its history
SpawnEffect(future) ==
    /\ LET r == Executor_spawn(tasks, future)
       IN  /\ tasks' = r.tasks
           /\ op' = [name |-> "spawn", ret |-> r.ret, slots |-> r.slots,
                     res |-> "None", size |-> size_of(future),
                     forgot |-> r.forgot,
                     reuse |-> \E i \in r.slots : life[i].ready]
           /\ life' = [i \in Slots |->
                         IF i \in r.slots /\ r.forgot THEN NoLife
                         ELSE life[i]]
    /\ UNCHANGED <<current_task, late_poll, trail, prim_vars, task_vars>>

\* executor.spawn(future), on all variables but waited
SpawnCall(future) ==
    /\ next_id < MaxSpawns
    /\ SpawnEffect(future)
    /\ next_id' = next_id + 1

\* executor.spawn(future)
Spawn(future) == SpawnCall(future) /\ UNCHANGED <<waited, driver_vars>>

\* executor.run_step(), on all variables but waited
RunStepCall ==
    /\ LET r == Executor_run_step(tasks, current_task)
       IN  /\ tasks' = r.tasks
           /\ current_task' = r.cur
           /\ op' = [name |-> "run_step", ret |-> FALSE,
                     slots |-> {current_task}, res |-> r.res,
                     size |-> 0, forgot |-> FALSE, reuse |-> FALSE]
           /\ late_poll' = (late_poll \/ \E i \in r.polled : life[i].ready)
           /\ life' = [i \in Slots |->
                         [ready |-> life[i].ready
                                    \/ (i \in r.polled /\ r.res = "Ready"),
                          drops |-> IF i \in r.dropped
                                    THEN Min(life[i].drops + 1, 2)
                                    ELSE life[i].drops]]
    /\ trail' = IF Len(trail) < NumTasks THEN Append(trail, current_task)
                ELSE Append(Tail(trail), current_task)
    /\ UNCHANGED <<next_id, prim_vars, task_vars>>

\* executor.run_step()
RunStep == RunStepCall /\ UNCHANGED <<waited, driver_vars>>

Next ==
    \/ \E future \in SpawnFutures : Spawn(future)
    \/ RunStep

Spec == Init /\ [][Next]_vars

\* ---- the executor with the waiting time of every slot recorded -------

\* executor.spawn(future); a future moved into a slot has not waited yet
SpawnTurn(future) ==
    /\ next_id < MaxTurnSpawns
    /\ SpawnCall(future)
    /\ waited' = [i \in Slots |->
                    IF i \in op'.slots /\ op'.forgot THEN 0 ELSE waited[i]]
    /\ UNCHANGED driver_vars

\* executor.run_step(); a future waits through the call when it is in its
\* slot before and after it and the call did not poll it
RunStepTurn ==
    /\ RunStepCall
    /\ waited' = [i \in Slots |->
                    IF /\ Task_is_active(tasks[i])
                       /\ Task_is_active(tasks'[i])
                       /\ ~(i \in op'.slots /\ op'.res # "None")
                    THEN Min(waited[i] + 1, NumTasks)
                    ELSE 0]
    /\ UNCHANGED driver_vars

NextTurn ==
    \/ \E future \in SpawnFutures : SpawnTurn(future)
    \/ RunStepTurn

SpecTurn == Init /\ [][NextTurn]_vars

\* ---- a future polled on its own ----------------------------------------

PrimFutures == {Yield_new} \cup {Delay_new(c) : c \in 0 .. MaxCycles}

InitPrim ==
    /\ InitExec
    /\ fut \in PrimFutures
    /\ total = (IF fut.type = "Delay" THEN fut.bytes ELSE 0)
    /\ results = <<>>
    /\ InitTaskIdle
    /\ InitDriverIdle

\* Pin::new(&mut fut).poll(cx)
Poll ==
    /\ Len(results) < MaxPolls
    /\ LET r == Future_poll(fut.type, fut.bytes)
       IN  /\ fut' = [fut EXCEPT !.bytes = r.bytes]
           /\ results' = Append(results, r.res)
    /\ UNCHANGED <<total, exec_vars, task_vars, driver_vars>>

NextPrim == Poll

SpecPrim == InitPrim /\ [][NextPrim]_vars

\* ---- a Task used on its own --------------------------------------------

TaskFutures ==
    {Yield_new, Padded_new(StorageLen), Padded_new(StorageLen + 1)}
        \cup {Delay_new(k * (Chunk \div 2)) : k \in 0 .. MaxTaskDelays}

\* slot.init_with(future), on a task that is not active as in spawn
TaskInit(future) ==
    /\ ~Task_is_active(slot)
    /\ LET r == Task_init_with(slot, future)
       IN  /\ slot' = r.task
           /\ slot_log' = IF r.forgot
                          THEN [installed |-> TRUE, drops |-> 0, deacts |-> 0]
                          ELSE slot_log
    /\ UNCHANGED <<exec_vars, prim_vars, driver_vars>>

\* slot.poll(cx)
TaskPoll ==
    /\ slot' = Task_poll(slot).task
    /\ UNCHANGED <<slot_log, exec_vars, prim_vars, driver_vars>>

\* slot.deactivate()
TaskDeactivate ==
    /\ slot_log.deacts < MaxDeacts
    /\ LET d == Task_deactivate(slot)
       IN  /\ slot' = d.task
           /\ slot_log' = [slot_log EXCEPT
                             !.drops = IF d.dropped THEN Min(@ + 1, 2) ELSE @,
                             !.deacts = @ + 1]
    /\ UNCHANGED <<exec_vars, prim_vars, driver_vars>>

NextTask ==
    \/ \E future \in TaskFutures : TaskInit(future)
    \/ TaskPoll
    \/ TaskDeactivate

SpecTask == Init /\ [][NextTask]_vars

\* ---- _start: the menu loop driving the executor ------------------------

\* The check of _start for a running main task, with all slots inspected
HasMainTask_any(ts) == \E i \in Slots : Task_is_active(ts[i])

\* The check of _start for a running main task: slots 1 .. NumTasks - 1
HasMainTask(ts) == \E i \in 1 .. (NumTasks - 1) : Task_is_active(ts[i])

\* The future each menu key spawns
AppOf(key) ==
    CASE key = KEY_1 -> Generator_new
      [] key = KEY_3 -> Matrix_new
      [] key = KEY_4 -> Hypnotizer_new

AppKeys == {KEY_1, KEY_3, KEY_4}

InitDriver ==
    /\ InitExec
    /\ InitPrimIdle
    /\ InitTaskIdle
    /\ pc = "start"
    /\ kbd \in Keys

\* let mut executor = Executor::new(); executor.spawn(background...)
DriverStart ==
    /\ pc = "start"
    /\ SpawnEffect(Background_new)
    /\ pc' = "menu"
    /\ kbd' = kbd
    /\ UNCHANGED <<next_id, waited>>

\* one turn of the while waiting_for_input loop with no key or a key that
\* no arm names: the run_step at its end
MenuIdle ==
    /\ pc = "menu"
    /\ kbd \notin AppKeys \cup {KEY_2}
    /\ RunStepCall
    /\ pc' = "menu"
    /\ kbd' \in Keys
    /\ UNCHANGED waited

\* the arms KEY_1, KEY_3 and KEY_4 up to their loop: executor.spawn(app)
MenuSpawn ==
    /\ pc = "menu"
    /\ kbd \in AppKeys
    /\ SpawnEffect(AppOf(kbd))
    /\ pc' = "fg"
    /\ kbd' \in Keys
    /\ UNCHANGED <<next_id, waited>>

\* the arm KEY_2: panic!(), whose handler never returns
MenuPanic ==
    /\ pc = "menu"
    /\ kbd = KEY_2
    /\ pc' = "panic"
    /\ kbd' = kbd
    /\ UNCHANGED <<exec_vars, prim_vars, task_vars>>

\* The loop of an arm leaving after its first run_step, main task or not
FgStep_breaks ==
    /\ pc = "fg"
    /\ RunStepCall
    /\ pc' = "after"
    /\ kbd' \in Keys
    /\ UNCHANGED waited

\* one turn of the loop of an arm: run_step, then the check for a main task
FgStep ==
    /\ pc = "fg"
    /\ RunStepCall
    /\ pc' = IF HasMainTask(tasks') THEN "fg" ELSE "after"
    /\ kbd' \in Keys
    /\ UNCHANGED waited

\* after the loop of an arm: the run_step at the end of the while body,
\* then back to show_menu
AfterStep ==
    /\ pc = "after"
    /\ RunStepCall
    /\ pc' = "menu"
    /\ kbd' \in Keys
    /\ UNCHANGED waited

NextDriver ==
    \/ DriverStart
    \/ MenuIdle
    \/ MenuSpawn
    \/ MenuPanic
    \/ FgStep
    \/ AfterStep

SpecDriver == InitDriver /\ [][NextDriver]_vars

\* _start runs on: the CPU keeps executing the loop it is in, so a turn
\* of a loop that can be taken is taken
SpecDriverLive == SpecDriver /\ WF_vars(NextDriver)

\* ---- properties --------------------------------------------------------

IsSpawnCall == next_id' = next_id + 1

IsRunStepCall == op'.name = "run_step"

CeilDiv(a, b) == (a + b - 1) \div b

\* C1: a spawn() onto a table whose NumTasks slots are all occupied
\* returns false and changes neither any slot (bindings, storage) nor the
\* cursor.
C1_FullTableRejects ==
    [][(IsSpawnCall /\ FreeSlots(tasks) = {})
         => (/\ op'.ret = FALSE
             /\ tasks' = tasks
             /\ current_task' = current_task)]_vars

C1_Witness ==
    /\ op.name = "spawn"
    /\ op.ret = FALSE
    /\ FreeSlots(tasks) = {}
    /\ \E i \in Slots : tasks[i].storage = 1
    /\ \E i \in Slots : tasks[i].storage = 0

C3_NotStoredNotSuccess ==
    (op.name = "spawn" /\ ~op.forgot) => op.ret = FALSE

\* C4: a spawn() of a future larger than StorageLen, and with it the
\* init_with call on the first free slot, leaves that slot as it was: not
\* active, poll_fn, drop_fn and storage unchanged.
C4_OversizedLeavesSlot ==
    [][(IsSpawnCall /\ op'.size > StorageLen)
         => \A i \in op'.slots :
               /\ tasks'[i] = tasks[i]
               /\ ~Task_is_active(tasks'[i])]_vars

C4_Witness ==
    /\ op.name = "spawn"
    /\ op.size > StorageLen
    /\ \E i \in op.slots : ~Task_is_active(tasks[i]) /\ tasks[i].storage = 1

\* C5: the first poll of a new Yield returns Pending and the second
\* returns Ready.
C5_YieldPendingThenReady ==
    (fut.type = "Yield"
        => \A j \in 1 .. Len(results) :
              /\ j = 1 => results[j] = "Pending"
              /\ j = 2 => results[j] = "Ready")

C5_Witness ==
    /\ fut.type = "Yield"
    /\ results = <<"Pending", "Ready">>

\* C6: when run_step has seen Ready the slot it polled is inactive in the
\* state it returns in, no active slot holds a future that has returned
\* Ready, and a spawn() of a future that fits onto a table whose only free
\* slot was released that way returns true and makes that slot active.
C6_ReadyReleasesInStep ==
    /\ []((op.name = "run_step" /\ op.res = "Ready")
            => \A i \in op.slots : ~Task_is_active(tasks[i]))
    /\ [](\A i \in Slots : Task_is_active(tasks[i]) => ~life[i].ready)
    /\ [][(/\ IsSpawnCall
           /\ op'.size <= StorageLen
           /\ \E j \in Slots : FreeSlots(tasks) = {j} /\ life[j].ready)
            => (/\ op'.ret = TRUE
                /\ op'.slots = FreeSlots(tasks)
                /\ \A j \in FreeSlots(tasks) : Task_is_active(tasks'[j]))]_vars

C6_Witness ==
    /\ op.name = "spawn"
    /\ op.ret = TRUE
    /\ op.reuse
    /\ op.slots = {3}
    /\ FreeSlots(tasks) = {}

\* C7: the cursor after NumTasks run_step calls is the cursor the first of
\* them started at, whatever the slots hold.
C7_CursorReturns ==
    Len(trail) = NumTasks => current_task = trail[1]

C7_Witness ==
    /\ Len(trail) = NumTasks
    /\ trail[1] = 5
    /\ current_task = 5
    /\ FreeSlots(tasks) # {}
    /\ FreeSlots(tasks) # Slots

\* C8: run_step leaves every slot other than the one at the cursor as it
\* was: poll_fn, drop_fn and storage.
C8_StepTouchesCursorSlotOnly ==
    [][IsRunStepCall
         => \A i \in Slots \ {current_task} : tasks'[i] = tasks[i]]_vars

C8_Witness ==
    /\ op.name = "run_step"
    /\ op.res = "Ready"
    /\ \E i \in Slots \ op.slots :
          Task_is_active(tasks[i]) /\ tasks[i].storage = 1
    /\ \E i \in Slots \ op.slots :
          Task_is_active(tasks[i]) /\ tasks[i].storage = 0

\* C9: the future moved into a slot is dropped at most once, it has been
\* dropped exactly once in every state after the run_step in which its
\* poll returned Ready, and spawn moves a future into at most one slot.
C9_DroppedOnce ==
    /\ \A i \in Slots :
          /\ life[i].drops <= 1
          /\ life[i].ready => life[i].drops = 1
    /\ op.name = "spawn" => Cardinality(op.slots) <= 1

C9_Witness ==
    /\ op.name = "run_step"
    /\ op.res = "Ready"
    /\ \A i \in op.slots : life[i].ready /\ life[i].drops = 1

\* C10: no run_step polls a future that has already returned Ready.
C10_NoPollAfterReady ==
    late_poll = FALSE

C10_Witness ==
    /\ op.name = "run_step"
    /\ op.res = "None"
    /\ \A i \in op.slots : life[i].ready
    /\ ~late_poll

\* C11: a spawn() of a future that fits the storage onto a table with a
\* free slot returns true and moves the future into the free slot of the
\* lowest index, which is active afterwards.
C11_SpawnFillsFirstFree ==
    [][(IsSpawnCall /\ FreeSlots(tasks) # {} /\ op'.size <= StorageLen)
         => (/\ op'.ret = TRUE
             /\ op'.forgot
             /\ \E j \in Slots :
                   /\ ~Task_is_active(tasks[j])
                   /\ \A k \in 0 .. (j - 1) : Task_is_active(tasks[k])
                   /\ op'.slots = {j}
                   /\ Task_is_active(tasks'[j])
                   /\ tasks'[j].storage = 0)]_vars

C11_Witness ==
    /\ op.name = "spawn"
    /\ op.ret = TRUE
    /\ op.forgot
    /\ op.slots = {2}
    /\ Task_is_active(tasks[2])
    /\ {4, 6} \subseteq FreeSlots(tasks)

\* C13: every run_step moves the cursor to (cursor + 1) mod NumTasks,
\* whether the slot at the cursor was inactive, returned Pending or returned
\* Ready, and the cursor is always an index of the table.
C13_CursorAdvancesByOne ==
    /\ [](current_task \in Slots)
    /\ [][IsRunStepCall
            => current_task' = (current_task + 1) % NumTasks]_vars

C13_Witness ==
    /\ op.name = "run_step"
    /\ op.res = "Ready"
    /\ op.slots = {NumTasks - 1}
    /\ current_task = 0

\* C14: the last NumTasks run_step calls visited the slots trail[1],
\* trail[1] + 1, ... modulo NumTasks in that order, hence every slot
\* exactly once, whatever the slots hold.
C14_VisitsInIndexOrder ==
    /\ \A k \in 1 .. Len(trail) : trail[k] = (trail[1] + k - 1) % NumTasks
    /\ Len(trail) = NumTasks
         => \A i \in Slots :
               Cardinality({k \in 1 .. NumTasks : trail[k] = i}) = 1

C14_Witness ==
    /\ Len(trail) = NumTasks
    /\ trail = <<3, 4, 5, 6, 7, 0, 1, 2>>
    /\ FreeSlots(tasks) # {}
    /\ FreeSlots(tasks) # Slots

\* C15: a future that stays in its slot is polled at least once in any
\* NumTasks consecutive run_step calls: no active slot has been left
\* unpolled by NumTasks calls in a row, also when the future was spawned
\* into a slot just behind the cursor.
C15_PolledWithinNumTasksSteps ==
    \A i \in Slots : Task_is_active(tasks[i]) => waited[i] < NumTasks

C15_Witness ==
    /\ op.name = "run_step"
    /\ \E i \in Slots :
          /\ Task_is_active(tasks[i])
          /\ tasks[i].storage = 0
          /\ waited[i] = NumTasks - 1
          /\ current_task = i

\* C16: every slot has either both poll_fn and drop_fn unset or both set,
\* and a slot with both set holds a future that has neither returned Ready
\* nor been dropped.
C16_EmptyOrOccupied ==
    \A i \in Slots :
       /\ (tasks[i].poll_fn = "None") <=> (tasks[i].drop_fn = "None")
       /\ Task_is_active(tasks[i])
            => (/\ tasks[i].drop_fn = tasks[i].poll_fn
                /\ ~life[i].ready
                /\ life[i].drops = 0)

C16_Witness ==
    /\ \E i \in Slots : Task_is_active(tasks[i]) /\ tasks[i].storage = 1
    /\ \E i \in Slots : ~Task_is_active(tasks[i]) /\ life[i].drops = 1
    /\ \E i \in Slots : ~Task_is_active(tasks[i]) /\ life[i] = NoLife

\* C17: a future in a slot leaves it, is dropped or has its bytes replaced
\* only in the run_step call that polled it and got Ready: no spawn and no
\* other run_step changes the bindings of an active slot, drops its future
\* or writes over it.
C17_ReleasedOnlyOnReady ==
    [][\A i \in Slots :
          (/\ Task_is_active(tasks[i])
           /\ \/ tasks'[i].poll_fn # tasks[i].poll_fn
              \/ tasks'[i].drop_fn # tasks[i].drop_fn
              \/ life'[i].drops # life[i].drops
              \/ (IsSpawnCall /\ i \in op'.slots))
            => (/\ IsRunStepCall
                /\ i = current_task
                /\ op'.res = "Ready")]_vars

C17_Witness ==
    /\ op.name = "run_step"
    /\ op.res = "Pending"
    /\ \A i \in op.slots :
          /\ Task_is_active(tasks[i])
          /\ tasks[i].storage = 1
          /\ life[i].drops = 0

\* C18: a run_step on an inactive slot polls nothing and drops nothing: it
\* changes no slot and only moves the cursor on.
C18_EmptySlotOnlyAdvances ==
    [][(IsRunStepCall /\ ~Task_is_active(tasks[current_task]))
         => (/\ op'.res = "None"
             /\ tasks' = tasks
             /\ life' = life
             /\ late_poll' = late_poll
             /\ current_task' = (current_task + 1) % NumTasks)]_vars

C18_Witness ==
    /\ op.name = "run_step"
    /\ op.res = "None"
    /\ \A i \in op.slots : ~Task_is_active(tasks[i]) /\ tasks[i].storage = 1
    /\ FreeSlots(tasks) # Slots

IsDeactivateCall == slot_log'.deacts = slot_log.deacts + 1

\* C19: deactivate on a task that is not active calls no drop_fn and
\* leaves the task as it is, and however often deactivate is called on a
\* task after a future was moved into it, drop_fn is called exactly once.
C19_DeactivateIdempotent ==
    /\ [](/\ slot_log.drops <= 1
          /\ ~slot_log.installed => slot_log.drops = 0
          /\ (slot_log.installed /\ slot_log.deacts >= 1)
               => (slot_log.drops = 1 /\ ~Task_is_active(slot)))
    /\ [][(IsDeactivateCall /\ ~Task_is_active(slot))
            => (/\ slot' = slot
                /\ slot_log'.drops = slot_log.drops)]_vars

C19_Witness ==
    /\ slot_log.installed
    /\ slot_log.deacts = 2
    /\ slot_log.drops = 1
    /\ ~Task_is_active(slot)
    /\ slot.storage = 1

IsPollCall == Len(results') = Len(results) + 1

\* C20: a poll of a Delay with remaining > 0 takes exactly
\* min(remaining, Chunk) off remaining, so at most Chunk; remaining never
\* grows and never goes below 0; and the first poll of a Delay created with
\* 0 cycles returns Ready.
C20_DelayConsumesMinChunk ==
    /\ [][(IsPollCall /\ fut.type = "Delay")
            => (/\ fut.bytes > 0
                     => fut'.bytes = fut.bytes - Min(fut.bytes, Chunk)
                /\ fut.bytes - fut'.bytes <= Chunk
                /\ fut'.bytes <= fut.bytes
                /\ fut'.bytes >= 0)]_vars
    /\ []((fut.type = "Delay" /\ total = 0 /\ Len(results) >= 1)
            => results[1] = "Ready")
    /\ [](fut.type = "Delay" => fut.bytes \in 0 .. total)

C20_Witness ==
    /\ fut.type = "Delay"
    /\ total = 2500
    /\ fut.bytes = 0
    /\ Len(results) = 3

\* C12: in _start, from the spawn of the background future on, slot 0
\* holds that future: it is never released (never Ready, never dropped),
\* no later spawn moves a future into slot 0, and the loop of a menu arm
\* ends exactly when slots 1 .. NumTasks - 1 are all inactive, slot 0 still
\* being active.
C12_BackgroundKeepsSlotZero ==
    /\ [](pc \in {"menu", "fg", "after", "panic"}
            => (/\ tasks[0].poll_fn = "Background"
                /\ tasks[0].drop_fn = "Background"
                /\ ~life[0].ready
                /\ life[0].drops = 0))
    /\ [][pc # "start"
            => (/\ tasks'[0].poll_fn = tasks[0].poll_fn
                /\ (pc = "menu" /\ pc' = "fg") => 0 \notin op'.slots)]_vars
    /\ [][pc = "fg"
            => (pc' = "after"
                  <=> \A i \in 1 .. (NumTasks - 1) :
                         ~Task_is_active(tasks'[i]))]_vars

C12_Witness ==
    /\ pc = "menu"
    /\ op.name = "run_step"
    /\ life[1].ready
    /\ life[1].drops = 1
    /\ tasks[0].poll_fn = "Background"
    /\ AsyncAt(tasks[0].storage) = AtYield

\* C21: in _start, while the loop of a menu arm runs, the foreground future
\* spawned by the arm is in its slot and has not reported Ready; every
\* turn of the loop is a run_step call, and the loop goes on exactly while
\* one of slots 1 .. NumTasks - 1 is active.  The run_step in which the
\* foreground future reports Ready ends the loop, and from there control
\* comes back to the menu, slot 0 still holding the background future.
C21_LoopEndsWhenForegroundReady ==
    /\ [](pc = "fg"
            => (/\ \E i \in 1 .. (NumTasks - 1) : Task_is_active(tasks[i])
                /\ \A i \in 1 .. (NumTasks - 1) : ~life[i].ready))
    /\ [][pc = "fg"
            => (/\ op'.name = "run_step"
                /\ (pc' = "fg"
                      <=> \E i \in 1 .. (NumTasks - 1) :
                             Task_is_active(tasks'[i]))
                /\ (op'.res = "Ready"
                      => (/\ pc' = "after"
                          /\ Task_is_active(tasks'[0]))))]_vars
    /\ (pc = "after") ~> (pc = "menu" /\ Task_is_active(tasks[0]))

C21_Witness ==
    /\ pc = "after"
    /\ op.name = "run_step"
    /\ op.res = "Ready"
    /\ op.slots = {1}
    /\ tasks[1].poll_fn = "None"
    /\ tasks[0].poll_fn = "Background"

\* C22: in _start, slots 2 .. NumTasks - 1 are never occupied; a foreground
\* future is resident only while the loop of its arm runs, and then it is
\* in slot 1; every spawn of _start returns true and has stored its
\* future, the background one in slot 0 and a foreground one in slot 1.
C22_ForegroundOnlyInSlotOne ==
    /\ \A i \in 2 .. (NumTasks - 1) : ~Task_is_active(tasks[i])
    /\ Task_is_active(tasks[1]) <=> pc = "fg"
    /\ Task_is_active(tasks[1])
         => tasks[1].poll_fn \in {"Generator", "Matrix", "Hypnotizer"}
    /\ op.name = "spawn"
         => (/\ op.ret
             /\ op.forgot
             /\ op.slots = (IF pc = "fg" THEN {1} ELSE {0}))

C22_Witness ==
    /\ pc = "fg"
    /\ op.name = "spawn"
    /\ op.ret
    /\ op.reuse
    /\ op.slots = {1}
    /\ tasks[1].poll_fn = "Matrix"
    /\ tasks[0].poll_fn = "Background"

\* C23: a spawn call that returns true leaves the cursor and every slot
\* but the first free one as they were, bindings and stored bytes alike;
\* the slot it moves the future into holds the bytes of the future as it
\* was passed in, not yet polled, and no poll and no step is recorded.
C23_SpawnChangesOneSlot ==
    [][IsSpawnCall /\ op'.name = "spawn" /\ op'.ret
         => (/\ current_task' = current_task
             /\ \A j \in Slots \ {FirstFree(tasks)} : tasks'[j] = tasks[j]
             /\ op'.forgot
                  => tasks'[FirstFree(tasks)]
                       = [poll_fn |-> Yield_new.type,
                          drop_fn |-> Yield_new.type,
                          storage |-> Yield_new.bytes]
             /\ ~op'.forgot => tasks' = tasks
             /\ late_poll' = late_poll
             /\ trail' = trail)]_vars

C23_Witness ==
    /\ op.name = "spawn"
    /\ op.ret
    /\ op.forgot
    /\ op.slots = {2}
    /\ current_task = 5
    /\ tasks[0].storage = 1
    /\ tasks[1].storage = 1
    /\ tasks[2] = [poll_fn |-> "Yield", drop_fn |-> "Yield", storage |-> 0]

====
